---- MODULE Spec2Model ----
(***************************************************************************)
(* A model of the Lispy evaluator of src/variables.c: the tagged value     *)
(* model (lval), the environment (lenv), the evaluator (lval_eval,         *)
(* lval_eval_sexpr), the builtins and the read-eval-print loop of main.    *)
(*                                                                         *)
(* The C program works on malloc'ed nodes that are mutated in place, so    *)
(* the evaluator is modelled over an explicit heap: a machine M carries    *)
(* the heap, the environment (whose values are addresses), a log of what   *)
(* the evaluator did, the status of the process and the address returned   *)
(* by the last call.  Every C function is an operator from a machine to a  *)
(* machine.  Between two lines of the REPL the heap holds the nodes of the *)
(* environment and nothing else.                                           *)
(***************************************************************************)
EXTENDS Integers, Sequences, FiniteSets, TLC

\* Bounds of the model.
MaxLines == 2      \* lines read by the REPL in one run
MaxDepth == 9      \* nested lval_eval calls the C stack holds

(***************************************************************************)
(* enum lval_types                                                         *)
(***************************************************************************)
LVAL_ERR == "LVAL_ERR"
LVAL_NUM == "LVAL_NUM"
LVAL_SYM == "LVAL_SYM"
LVAL_FUN == "LVAL_FUN"
LVAL_SEXPR == "LVAL_SEXPR"
LVAL_QEXPR == "LVAL_QEXPR"

\* struct lval: count is Len(cell); live is FALSE once the node is freed.
lval == [type |-> "", num |-> 0, err |-> "", sym |-> "", fun |-> "",
         cell |-> <<>>, live |-> TRUE]

\* struct lenv: count is Len(syms); vals holds addresses (or trees, in the state).
lenv_new == [syms |-> <<>>, vals |-> <<>>]

\* A value as a tree, read off the heap; a freed node reads as FREED.
tree == [type |-> "", num |-> 0, err |-> "", sym |-> "", fun |-> "", cell |-> <<>>]
FREED == "FREED"

\* The process status.
OK == "ok"
STACK_OVERFLOW == "stack overflow"
SIGFPE == "SIGFPE"
DOUBLE_FREE == "double free"
USE_AFTER_FREE == "use after free"

\* A log entry of the evaluator.
event == [op |-> "", depth |-> 0, idx |-> 0, sym |-> "", arg |-> tree, v |-> tree, n |-> 0]

\* What x->num %= y->num does when y->num is 0, which C leaves undefined: the
\* process is killed (x86), x keeps its value (the remainder of a division
\* that gave 0) or x becomes 0.
UB == {"SIGFPE", "x", "0"}

\* The machine before anything is allocated; ub is the outcome of the build.
machine == [heap |-> <<>>, e |-> lenv_new, log |-> <<>>, status |-> OK, ret |-> 0,
            ub |-> "SIGFPE"]

\* malloc(sizeof(lval)) and the initialisation of the node: a fresh address.
malloc(M, node) == [M EXCEPT !.heap = Append(@, node), !.ret = Len(M.heap) + 1]

Return(M, x) == [M EXCEPT !.ret = x]

Emit(M, ev) == [M EXCEPT !.log = Append(@, ev)]

(***************************************************************************)
(* Constructors                                                            *)
(***************************************************************************)
lval_num(M, x) == malloc(M, [lval EXCEPT !.type = LVAL_NUM, !.num = x])

lval_err(M, m) == malloc(M, [lval EXCEPT !.type = LVAL_ERR, !.err = m])

lval_sym(M, s) == malloc(M, [lval EXCEPT !.type = LVAL_SYM, !.sym = s])

lval_sexpr(M) == malloc(M, [lval EXCEPT !.type = LVAL_SEXPR])

lval_qexpr(M) == malloc(M, [lval EXCEPT !.type = LVAL_QEXPR])

lval_fun(M, func) == malloc(M, [lval EXCEPT !.type = LVAL_FUN, !.fun = func])

(***************************************************************************)
(* lval_del: free a node and, for a list, its children first.  Freeing a   *)
(* node twice is undefined behaviour; the model stops the process there.   *)
(***************************************************************************)
RECURSIVE lval_del(_, _)
RECURSIVE lval_del_cells(_, _, _)
lval_del_cells(M, cell, i) ==
  IF M.status # OK \/ i > Len(cell) THEN M
  ELSE lval_del_cells(lval_del(M, cell[i]), cell, i + 1)

lval_del(M, v) ==
  IF M.status # OK THEN M
  ELSE IF ~M.heap[v].live THEN [M EXCEPT !.status = DOUBLE_FREE]
  ELSE LET M1 == IF M.heap[v].type \in {LVAL_SEXPR, LVAL_QEXPR}
                 THEN lval_del_cells(M, M.heap[v].cell, 1)
                 ELSE M
       IN IF M1.status # OK THEN M1
          ELSE [M1 EXCEPT !.heap[v].live = FALSE]

\* ltype_name
ltype_name(t) ==
  CASE t = LVAL_FUN -> "Function"
    [] t = LVAL_NUM -> "Number"
    [] t = LVAL_ERR -> "Error"
    [] t = LVAL_SYM -> "Symbol"
    [] t = LVAL_SEXPR -> "S-Expression"
    [] t = LVAL_QEXPR -> "Q-Expression"
    [] OTHER -> "Unknown"

\* lval_add: append x to the children of v; returns v.
lval_add(M, v, x) == [M EXCEPT !.heap[v].cell = Append(@, x), !.ret = v]

(***************************************************************************)
(* Reading a value off the heap as a tree.                                 *)
(***************************************************************************)
RECURSIVE Abs(_, _)
Abs(heap, a) ==
  IF ~heap[a].live THEN [tree EXCEPT !.type = FREED]
  ELSE LET n == heap[a]
       IN [type |-> n.type, num |-> n.num, err |-> n.err, sym |-> n.sym, fun |-> n.fun,
           cell |-> [i \in 1..Len(n.cell) |-> Abs(heap, n.cell[i])]]


(***************************************************************************)
(* The parser's tree (mpc_ast_t): tag is the list of the rule names joined *)
(* by '|' in mpc, contents the matched text, children the sub-trees.       *)
(***************************************************************************)
mpc_ast_t == [tag |-> <<>>, contents |-> "", children |-> <<>>]

\* strstr(t->tag, s) on a tag made of rule names
strstr(tag, s) == \E i \in 1..Len(tag) : tag[i] = s

\* strtol(contents, NULL, 10) for the literals the model reads; a literal past
\* LONG_MAX gives LONG_MAX with errno = ERANGE.
ERANGE == "ERANGE"
TooLong == "9223372036854775808"
strtol(contents) ==
  CASE contents = "0" -> [x |-> 0, errno |-> ""]
    [] contents = "1" -> [x |-> 1, errno |-> ""]
    [] contents = "2" -> [x |-> 2, errno |-> ""]
    [] contents = "3" -> [x |-> 3, errno |-> ""]
    [] contents = "4" -> [x |-> 4, errno |-> ""]
    [] contents = "5" -> [x |-> 5, errno |-> ""]
    [] contents = "7" -> [x |-> 7, errno |-> ""]
    [] contents = "8" -> [x |-> 8, errno |-> ""]
    [] contents = "-7" -> [x |-> -7, errno |-> ""]
    [] OTHER -> [x |-> 0, errno |-> ERANGE]

lval_read_num(M, t) ==
  LET r == strtol(t.contents)
  IN IF r.errno # ERANGE THEN lval_num(M, r.x)
     ELSE lval_err(M, "Error: Invalid number")

RECURSIVE lval_read(_, _)
RECURSIVE lval_read_children(_, _, _, _)
lval_read_children(M, x, t, i) ==
  IF M.status # OK \/ i > Len(t.children) THEN Return(M, x)
  ELSE LET c == t.children[i]
       IN IF \/ c.contents \in {"(", ")", "{", "}"}
             \/ c.tag = <<"regex">>
          THEN lval_read_children(M, x, t, i + 1)
          ELSE LET M1 == lval_read(M, c)
               IN lval_read_children(lval_add(M1, x, M1.ret), x, t, i + 1)

lval_read(M, t) ==
  IF strstr(t.tag, "number") THEN lval_read_num(M, t)
  ELSE IF strstr(t.tag, "symbol") THEN lval_sym(M, t.contents)
  ELSE LET M1 == IF strstr(t.tag, "qexpr") THEN lval_qexpr(M) ELSE lval_sexpr(M)
       IN lval_read_children(M1, M1.ret, t, 1)

(***************************************************************************)
(* lval_copy: a fresh node for v and, for a list, for each of its children *)
(***************************************************************************)
RECURSIVE lval_copy(_, _)
RECURSIVE lval_copy_cells(_, _, _, _)
lval_copy_cells(M, x, cell, i) ==
  IF i > Len(cell) \/ M.status # OK THEN M
  ELSE LET M1 == lval_copy(M, cell[i])
       IN lval_copy_cells(lval_add(M1, x, M1.ret), x, cell, i + 1)

lval_copy(M, v) ==
  LET n == M.heap[v]
  IN IF M.status # OK THEN M
     ELSE IF ~n.live THEN [M EXCEPT !.status = USE_AFTER_FREE]
     ELSE CASE n.type = LVAL_FUN -> malloc(M, [lval EXCEPT !.type = n.type, !.fun = n.fun])
            [] n.type = LVAL_NUM -> malloc(M, [lval EXCEPT !.type = n.type, !.num = n.num])
            [] n.type = LVAL_ERR -> malloc(M, [lval EXCEPT !.type = n.type, !.err = n.err])
            [] n.type = LVAL_SYM -> malloc(M, [lval EXCEPT !.type = n.type, !.sym = n.sym])
            [] OTHER -> LET M1 == malloc(M, [lval EXCEPT !.type = n.type])
                        IN Return(lval_copy_cells(M1, M1.ret, n.cell, 1), M1.ret)

(***************************************************************************)
(* The environment                                                         *)
(***************************************************************************)
\* The first position of name s in syms, 0 when s is not bound (strcmp scan).
lenv_find(syms, s) ==
  IF \E i \in 1..Len(syms) : syms[i] = s
  THEN CHOOSE i \in 1..Len(syms) : syms[i] = s /\ \A j \in 1..(i - 1) : syms[j] # s
  ELSE 0

\* lenv_get without the copy: the caller gets the node the environment holds.
lenv_get_alias(M, k) ==
  LET s == M.heap[k].sym
      i == lenv_find(M.e.syms, s)
      M1 == Emit(M, [event EXCEPT !.op = "get", !.sym = s])
  IN IF i # 0 THEN Return(M1, M1.e.vals[i])
     ELSE lval_err(M1, "unbound symbol '" \o s \o "'!")

\* lenv_get whose error does not name the symbol.
lenv_get_unnamed(M, k) ==
  LET s == M.heap[k].sym
      i == lenv_find(M.e.syms, s)
      M1 == Emit(M, [event EXCEPT !.op = "get", !.sym = s])
  IN IF i # 0 THEN lval_copy(M1, M1.e.vals[i])
     ELSE lval_err(M1, "unbound symbol!")

lenv_get(M, k) ==
  LET s == M.heap[k].sym
      i == lenv_find(M.e.syms, s)
      M1 == Emit(M, [event EXCEPT !.op = "get", !.sym = s])
  IN IF i # 0 THEN lval_copy(M1, M1.e.vals[i])
     ELSE lval_err(M1, "unbound symbol '" \o s \o "'!")

\* lenv_put without the search for an existing entry: every put appends.
lenv_put_append(M, k, v) ==
  LET s == M.heap[k].sym
      M1 == Emit(M, [event EXCEPT !.op = "put", !.sym = s, !.v = Abs(M.heap, v)])
      M2 == lval_copy(M1, v)
  IN [M2 EXCEPT !.e.vals = Append(@, M2.ret), !.e.syms = Append(@, s)]

\* lenv_put that moves a rebound entry to the end of the environment.
lenv_put_move(M, k, v) ==
  LET s == M.heap[k].sym
      i == lenv_find(M.e.syms, s)
      M1 == Emit(M, [event EXCEPT !.op = "put", !.sym = s, !.v = Abs(M.heap, v)])
  IN IF i # 0
     THEN LET M2 == lval_del(M1, M1.e.vals[i])
              M3 == lval_copy(M2, v)
              n == Len(M3.e.syms)
          IN [M3 EXCEPT !.e.vals = Append(SubSeq(@, 1, i - 1) \o SubSeq(@, i + 1, n), M3.ret),
                        !.e.syms = Append(SubSeq(@, 1, i - 1) \o SubSeq(@, i + 1, n), s)]
     ELSE LET M2 == lval_copy(M1, v)
          IN [M2 EXCEPT !.e.vals = Append(@, M2.ret), !.e.syms = Append(@, s)]

lenv_put(M, k, v) ==
  LET s == M.heap[k].sym
      i == lenv_find(M.e.syms, s)
      M1 == Emit(M, [event EXCEPT !.op = "put", !.sym = s, !.v = Abs(M.heap, v)])
  IN IF i # 0
     THEN LET M2 == lval_del(M1, M1.e.vals[i])
              M3 == lval_copy(M2, v)
          IN [M3 EXCEPT !.e.vals[i] = M3.ret]
     ELSE LET M2 == lval_copy(M1, v)
          IN [M2 EXCEPT !.e.vals = Append(@, M2.ret), !.e.syms = Append(@, s)]

(***************************************************************************)
(* lval_pop, lval_take (i counts from 0 as in the source)                  *)
(***************************************************************************)
lval_pop(M, v, i) ==
  LET cell == M.heap[v].cell
  IN [M EXCEPT !.heap[v].cell = SubSeq(cell, 1, i) \o SubSeq(cell, i + 2, Len(cell)),
               !.ret = cell[i + 1]]

\* lval_take that does not delete the list it takes from.
lval_take_keep(M, v, i) == lval_pop(M, v, i)

lval_take(M, v, i) ==
  LET M1 == lval_pop(M, v, i)
  IN Return(lval_del(M1, v), M1.ret)

(***************************************************************************)
(* LASSERT(args, cond, fmt, ...): the failing branch of the macro.         *)
(***************************************************************************)
LASSERT(M, args, msg) ==
  LET M1 == lval_err(M, msg)
  IN Return(lval_del(M1, args), M1.ret)

\* The type and the number of children of the i-th child of a (i from 0).
cell_type(M, a, i) == M.heap[M.heap[a].cell[i + 1]].type
cell_count(M, a, i) == Len(M.heap[M.heap[a].cell[i + 1]].cell)
count(M, a) == Len(M.heap[a].cell)

\* "Got %i, Expected %i" and "Got %s, Expected %s"
TooMany(name, got, expected, tail) ==
  "Function '" \o name \o "' passed too many arguments. Got " \o ToString(got)
    \o ", Expected " \o ToString(expected) \o tail
BadType(name, i, got, expected) ==
  "Function '" \o name \o "' passed incorrect type for argument " \o ToString(i)
    \o "!. Got " \o ltype_name(got) \o ", Expected " \o expected

(***************************************************************************)
(* builtin_op: the arithmetic fold.  C's / and % truncate towards zero.    *)
(***************************************************************************)
abs(x) == IF x < 0 THEN -x ELSE x
c_div(x, y) == IF (x < 0) = (y < 0) THEN abs(x) \div abs(y) ELSE -(abs(x) \div abs(y))
c_mod(x, y) == x - y * c_div(x, y)

\* The fold that leaves a zero divisor out and goes on.
RECURSIVE builtin_op_fold_skip(_, _, _, _)
builtin_op_fold_skip(M, a, x, op) ==
  IF count(M, a) = 0 THEN Return(M, x)
  ELSE LET M1 == lval_pop(M, a, 0)
           y == M1.ret
           xn == M1.heap[x].num
           yn == M1.heap[y].num
       IN IF op \in {"/", "%"} /\ yn = 0
          THEN builtin_op_fold_skip(lval_del(M1, y), a, x, op)
          ELSE LET r == CASE op = "+" -> xn + yn
                          [] op = "-" -> xn - yn
                          [] op = "*" -> xn * yn
                          [] op = "/" -> c_div(xn, yn)
                          [] op = "%" -> c_mod(xn, yn)
                          [] OTHER -> xn
               IN builtin_op_fold_skip(lval_del([M1 EXCEPT !.heap[x].num = r], y), a, x, op)

RECURSIVE builtin_op_fold(_, _, _, _)
builtin_op_fold(M, a, x, op) ==
  IF count(M, a) = 0 THEN Return(M, x)
  ELSE LET M1 == lval_pop(M, a, 0)
           y == M1.ret
           xn == M1.heap[x].num
           yn == M1.heap[y].num
       IN IF op = "/" /\ yn = 0
          THEN lval_err(lval_del(lval_del(M1, x), y), "Division by zero!")
          ELSE IF op = "%" /\ yn = 0 /\ M1.ub = "SIGFPE"
          THEN [M1 EXCEPT !.status = SIGFPE]
          ELSE LET r == CASE op = "+" -> xn + yn
                          [] op = "-" -> xn - yn
                          [] op = "*" -> xn * yn
                          [] op = "/" -> c_div(xn, yn)
                          [] op = "%" -> IF yn # 0 THEN c_mod(xn, yn)
                                        ELSE IF M1.ub = "x" THEN xn ELSE 0
                          [] OTHER -> xn
               IN builtin_op_fold(lval_del([M1 EXCEPT !.heap[x].num = r], y), a, x, op)

\* builtin_op that negates a single argument whatever the operator is.
builtin_op_negate(M, a, op) ==
  IF \E i \in 0..(count(M, a) - 1) : cell_type(M, a, i) # LVAL_NUM
  THEN lval_err(lval_del(M, a), "Cannot operate on a non-number!")
  ELSE LET M1 == lval_pop(M, a, 0)
           x == M1.ret
           M2 == IF count(M1, a) = 0
                 THEN [M1 EXCEPT !.heap[x].num = -@]
                 ELSE M1
           M3 == builtin_op_fold(M2, a, x, op)
       IN IF M3.status # OK THEN M3
          ELSE Return(lval_del(M3, a), M3.ret)

builtin_op(M, a, op) ==
  IF \E i \in 0..(count(M, a) - 1) : cell_type(M, a, i) # LVAL_NUM
  THEN lval_err(lval_del(M, a), "Cannot operate on a non-number!")
  ELSE LET M1 == lval_pop(M, a, 0)
           x == M1.ret
           M2 == IF op = "-" /\ count(M1, a) = 0
                 THEN [M1 EXCEPT !.heap[x].num = -@]
                 ELSE M1
           M3 == builtin_op_fold(M2, a, x, op)
       IN IF M3.status # OK THEN M3
          ELSE Return(lval_del(M3, a), M3.ret)

(***************************************************************************)
(* The list builtins that do not call the evaluator                        *)
(***************************************************************************)
RECURSIVE builtin_head_loop(_, _)
builtin_head_loop(M, v) ==
  IF count(M, v) > 1
  THEN LET M1 == lval_pop(M, v, 1)
       IN builtin_head_loop(lval_del(M1, M1.ret), v)
  ELSE Return(M, v)

builtin_head(M, a) ==
  IF count(M, a) # 1 THEN LASSERT(M, a, TooMany("head", count(M, a), 1, "!"))
  ELSE IF cell_type(M, a, 0) # LVAL_QEXPR
  THEN LASSERT(M, a, BadType("head", 0, cell_type(M, a, 0), ltype_name(LVAL_QEXPR)))
  ELSE IF cell_count(M, a, 0) = 0 THEN LASSERT(M, a, "Function 'head' passed {}!")
  ELSE LET M1 == lval_take(M, a, 0)
       IN builtin_head_loop(M1, M1.ret)

builtin_tail(M, a) ==
  IF count(M, a) # 1 THEN LASSERT(M, a, TooMany("tail", count(M, a), 1, "!"))
  ELSE IF cell_type(M, a, 0) # LVAL_QEXPR
  THEN LASSERT(M, a, BadType("tail", 0, cell_type(M, a, 0), ltype_name(LVAL_QEXPR)))
  ELSE IF cell_count(M, a, 0) = 0 THEN LASSERT(M, a, "Function 'tail' passed {}!")
  ELSE LET M1 == lval_take(M, a, 0)
           v == M1.ret
           M2 == lval_pop(M1, v, 0)
       IN Return(lval_del(M2, M2.ret), v)

\* builtin_list that returns its arguments as the S-expression they came in.
builtin_list_keep(M, a) == Return(M, a)

builtin_list(M, a) == [M EXCEPT !.heap[a].type = LVAL_QEXPR, !.ret = a]

\* lval_join that takes the children of y from its end.
RECURSIVE lval_join_back(_, _, _)
lval_join_back(M, x, y) ==
  IF count(M, y) > 0
  THEN LET M1 == lval_pop(M, y, count(M, y) - 1)
       IN lval_join_back(lval_add(M1, x, M1.ret), x, y)
  ELSE Return(lval_del(M, y), x)

RECURSIVE lval_join(_, _, _)
lval_join(M, x, y) ==
  IF count(M, y) > 0
  THEN LET M1 == lval_pop(M, y, 0)
       IN lval_join(lval_add(M1, x, M1.ret), x, y)
  ELSE Return(lval_del(M, y), x)

RECURSIVE builtin_join_loop(_, _, _)
builtin_join_loop(M, a, x) ==
  IF count(M, a) > 0
  THEN LET M1 == lval_pop(M, a, 0)
           M2 == lval_join(M1, x, M1.ret)
       IN builtin_join_loop(M2, a, M2.ret)
  ELSE Return(lval_del(M, a), x)

builtin_join(M, a) ==
  LET bad == {i \in 0..(count(M, a) - 1) : cell_type(M, a, i) # LVAL_QEXPR}
  IN IF bad # {}
     THEN LET i == CHOOSE i \in bad : \A j \in bad : i <= j
          IN LASSERT(M, a, BadType("join", i, cell_type(M, a, i), ltype_name(LVAL_QEXPR)))
     ELSE LET M1 == lval_pop(M, a, 0)
          IN builtin_join_loop(M1, a, M1.ret)

RECURSIVE builtin_cons_loop(_, _, _)
builtin_cons_loop(M, a, x) ==
  IF cell_count(M, a, 0) > 0
  THEN LET M1 == lval_pop(M, M.heap[a].cell[1], 0)
       IN builtin_cons_loop(lval_add(M1, x, M1.ret), a, x)
  ELSE Return(lval_del(M, a), x)

\* builtin_cons without the test of the type of argument 0.
builtin_cons_any(M, a) ==
  IF count(M, a) # 2
  THEN LASSERT(M, a, "Function 'cons' passed incorrect number of arguments. Got "
                       \o ToString(count(M, a)) \o ", Expected " \o ToString(2))
  ELSE IF cell_type(M, a, 1) # LVAL_QEXPR
  THEN LASSERT(M, a, BadType("cons", 1, cell_type(M, a, 1), ltype_name(LVAL_QEXPR)))
  ELSE LET M1 == lval_qexpr(M)
           x == M1.ret
           M2 == lval_pop(M1, a, 0)
       IN builtin_cons_loop(lval_add(M2, x, M2.ret), a, x)

builtin_cons(M, a) ==
  IF count(M, a) # 2
  THEN LASSERT(M, a, "Function 'cons' passed incorrect number of arguments. Got "
                       \o ToString(count(M, a)) \o ", Expected " \o ToString(2))
  ELSE IF cell_type(M, a, 0) \notin {LVAL_QEXPR, LVAL_NUM}
  THEN LASSERT(M, a, BadType("cons", 0, cell_type(M, a, 0),
                       ltype_name(LVAL_QEXPR) \o " or " \o ltype_name(LVAL_NUM)))
  ELSE IF cell_type(M, a, 1) # LVAL_QEXPR
  THEN LASSERT(M, a, BadType("cons", 1, cell_type(M, a, 1), ltype_name(LVAL_QEXPR)))
  ELSE LET M1 == lval_qexpr(M)
           x == M1.ret
           M2 == lval_pop(M1, a, 0)
       IN builtin_cons_loop(lval_add(M2, x, M2.ret), a, x)

\* The loop of builtin_init that runs until the argument is empty.
RECURSIVE builtin_init_loop_all(_, _, _)
builtin_init_loop_all(M, a, v) ==
  IF cell_count(M, a, 0) > 0
  THEN LET M1 == lval_pop(M, M.heap[a].cell[1], 0)
       IN builtin_init_loop_all(lval_add(M1, v, M1.ret), a, v)
  ELSE Return(lval_del(M, a), v)

RECURSIVE builtin_init_loop(_, _, _)
builtin_init_loop(M, a, v) ==
  IF cell_count(M, a, 0) > 1
  THEN LET M1 == lval_pop(M, M.heap[a].cell[1], 0)
       IN builtin_init_loop(lval_add(M1, v, M1.ret), a, v)
  ELSE Return(lval_del(M, a), v)

builtin_init(M, a) ==
  IF count(M, a) # 1 THEN LASSERT(M, a, TooMany("init", count(M, a), 1, ""))
  ELSE IF cell_type(M, a, 0) # LVAL_QEXPR
  THEN LASSERT(M, a, BadType("init", 0, cell_type(M, a, 0), ltype_name(LVAL_QEXPR)))
  ELSE IF cell_count(M, a, 0) = 0 THEN LASSERT(M, a, "Function 'init' passed {}!")
  ELSE LET M1 == lval_qexpr(M)
       IN builtin_init_loop(M1, a, M1.ret)

(***************************************************************************)
(* builtin_def                                                             *)
(***************************************************************************)
\* The loop of builtin_def that puts the first value for every symbol.
RECURSIVE builtin_def_loop_first(_, _, _, _)
builtin_def_loop_first(M, a, syms, i) ==
  IF i < count(M, syms) /\ M.status = OK
  THEN builtin_def_loop_first(lenv_put(M, M.heap[syms].cell[i + 1], M.heap[a].cell[2]),
                              a, syms, i + 1)
  ELSE M

RECURSIVE builtin_def_loop(_, _, _, _)
builtin_def_loop(M, a, syms, i) ==
  IF i < count(M, syms) /\ M.status = OK
  THEN builtin_def_loop(lenv_put(M, M.heap[syms].cell[i + 1], M.heap[a].cell[i + 2]),
                        a, syms, i + 1)
  ELSE M

\* builtin_def that counts the values after it has put them.
builtin_def_late(M, a) ==
  IF cell_type(M, a, 0) # LVAL_QEXPR
  THEN LASSERT(M, a, BadType("def", 0, cell_type(M, a, 0), ltype_name(LVAL_QEXPR)))
  ELSE LET syms == M.heap[a].cell[1]
       IN IF \E i \in 0..(count(M, syms) - 1) : cell_type(M, syms, i) # LVAL_SYM
          THEN LASSERT(M, a, "Function 'def' cannot define non-symbol")
          ELSE IF count(M, syms) > count(M, a) - 1
          THEN LASSERT(M, a, "Function 'def' cannot define incorrect number of values to symbols")
          ELSE LET M1 == builtin_def_loop(M, a, syms, 0)
               IN IF count(M, syms) # count(M, a) - 1
                  THEN LASSERT(M1, a, "Function 'def' cannot define incorrect number of values to symbols")
                  ELSE lval_sexpr(lval_del(M1, a))

builtin_def(M, a) ==
  IF cell_type(M, a, 0) # LVAL_QEXPR
  THEN LASSERT(M, a, BadType("def", 0, cell_type(M, a, 0), ltype_name(LVAL_QEXPR)))
  ELSE LET syms == M.heap[a].cell[1]
       IN IF \E i \in 0..(count(M, syms) - 1) : cell_type(M, syms, i) # LVAL_SYM
          THEN LASSERT(M, a, "Function 'def' cannot define non-symbol")
          ELSE IF count(M, syms) # count(M, a) - 1
          THEN LASSERT(M, a, "Function 'def' cannot define incorrect number of values to symbols")
          ELSE lval_sexpr(lval_del(builtin_def_loop(M, a, syms, 0), a))

(***************************************************************************)
(* The evaluator.  d is the number of lval_eval frames below the call; the *)
(* C stack holds MaxDepth of them and the process dies on the next one.    *)
(***************************************************************************)
RECURSIVE lval_eval(_, _, _)
RECURSIVE lval_eval_sexpr(_, _, _)
RECURSIVE lval_eval_cells(_, _, _, _)
RECURSIVE lval_eval_cells_short(_, _, _, _)
RECURSIVE builtin_eval(_, _, _)
RECURSIVE builtin_len(_, _, _)
RECURSIVE fun(_, _, _, _)

\* builtin_eval that leaves the type of its argument as it is.
builtin_eval_quoted(M, a, d) ==
  IF count(M, a) # 1 THEN LASSERT(M, a, TooMany("eval", count(M, a), 1, "!"))
  ELSE IF cell_type(M, a, 0) # LVAL_QEXPR
  THEN LASSERT(M, a, BadType("eval", 0, cell_type(M, a, 0), ltype_name(LVAL_QEXPR)))
  ELSE LET M1 == lval_take(M, a, 0)
       IN lval_eval(M1, M1.ret, d + 1)

builtin_eval(M, a, d) ==
  IF count(M, a) # 1 THEN LASSERT(M, a, TooMany("eval", count(M, a), 1, "!"))
  ELSE IF cell_type(M, a, 0) # LVAL_QEXPR
  THEN LASSERT(M, a, BadType("eval", 0, cell_type(M, a, 0), ltype_name(LVAL_QEXPR)))
  ELSE LET M1 == lval_take(M, a, 0)
           x == M1.ret
       IN lval_eval([M1 EXCEPT !.heap[x].type = LVAL_SEXPR], x, d + 1)

\* builtin_len that counts the arguments instead of the children of argument 0.
builtin_len_args(M, a, d) ==
  IF count(M, a) # 1 THEN LASSERT(M, a, TooMany("len", count(M, a), 1, ""))
  ELSE IF cell_type(M, a, 0) # LVAL_QEXPR
  THEN LASSERT(M, a, BadType("len", 0, cell_type(M, a, 0), ltype_name(LVAL_QEXPR)))
  ELSE LET M1 == lval_sexpr(M)
           x == M1.ret
           M2 == lval_num(M1, count(M1, a))
           M3 == lval_del(lval_add(M2, x, M2.ret), a)
       IN lval_eval(M3, x, d + 1)

builtin_len(M, a, d) ==
  IF count(M, a) # 1 THEN LASSERT(M, a, TooMany("len", count(M, a), 1, ""))
  ELSE IF cell_type(M, a, 0) # LVAL_QEXPR
  THEN LASSERT(M, a, BadType("len", 0, cell_type(M, a, 0), ltype_name(LVAL_QEXPR)))
  ELSE LET M1 == lval_sexpr(M)
           x == M1.ret
           M2 == lval_num(M1, cell_count(M1, a, 0))
           M3 == lval_del(lval_add(M2, x, M2.ret), a)
       IN lval_eval(M3, x, d + 1)

builtin_add(M, a) == builtin_op(M, a, "+")
builtin_sub(M, a) == builtin_op(M, a, "-")
builtin_mul(M, a) == builtin_op(M, a, "*")
builtin_div(M, a) == builtin_op(M, a, "/")
builtin_mod(M, a) == builtin_op(M, a, "%")

\* f->fun(e, v): the call through the function pointer f
fun(M, f, a, d) ==
  CASE f = "builtin_list" -> builtin_list(M, a)
    [] f = "builtin_head" -> builtin_head(M, a)
    [] f = "builtin_tail" -> builtin_tail(M, a)
    [] f = "builtin_eval" -> builtin_eval(M, a, d)
    [] f = "builtin_join" -> builtin_join(M, a)
    [] f = "builtin_cons" -> builtin_cons(M, a)
    [] f = "builtin_len" -> builtin_len(M, a, d)
    [] f = "builtin_init" -> builtin_init(M, a)
    [] f = "builtin_def" -> builtin_def(M, a)
    [] f = "builtin_add" -> builtin_add(M, a)
    [] f = "builtin_sub" -> builtin_sub(M, a)
    [] f = "builtin_mul" -> builtin_mul(M, a)
    [] f = "builtin_div" -> builtin_div(M, a)
    [] f = "builtin_mod" -> builtin_mod(M, a)

\* The loop over the children that stops behind the first child that became an Error.
lval_eval_cells_short(M, v, i, d) ==
  IF i >= count(M, v) \/ M.status # OK THEN M
  ELSE IF i > 0 /\ cell_type(M, v, i - 1) = LVAL_ERR THEN M
  ELSE LET c == M.heap[v].cell[i + 1]
           M1 == lval_eval(M, c, d + 1)
       IN IF M1.status # OK THEN M1
          ELSE lval_eval_cells_short(
                 Emit([M1 EXCEPT !.heap[v].cell[i + 1] = M1.ret],
                      [event EXCEPT !.op = "child", !.depth = d, !.idx = i,
                                    !.arg = Abs(M.heap, c), !.v = Abs(M1.heap, M1.ret),
                                    !.n = Len(M1.log) - Len(M.log)]),
                 v, i + 1, d)

\* The loop over the children that binds each value of a def to its symbol as
\* soon as the value is evaluated, before the next value is.
lval_eval_cells_bind(M, v, i, d) ==
  IF i >= count(M, v) \/ M.status # OK THEN M
  ELSE LET c == M.heap[v].cell[i + 1]
           M1 == lval_eval(M, c, d + 1)
           f == M.heap[v].cell[1]
           q == M.heap[v].cell[2]
           M2 == IF /\ M1.status = OK /\ i >= 2
                    /\ M1.heap[f].type = LVAL_FUN /\ M1.heap[f].fun = "builtin_def"
                    /\ M1.heap[q].type = LVAL_QEXPR /\ count(M1, q) >= i - 1
                    /\ cell_type(M1, q, i - 2) = LVAL_SYM
                    /\ M1.heap[M1.ret].type # LVAL_ERR
                 THEN Return(lenv_put(M1, M1.heap[q].cell[i - 1], M1.ret), M1.ret)
                 ELSE M1
       IN IF M2.status # OK THEN M2
          ELSE lval_eval_cells(
                 Emit([M2 EXCEPT !.heap[v].cell[i + 1] = M2.ret],
                      [event EXCEPT !.op = "child", !.depth = d, !.idx = i,
                                    !.arg = Abs(M.heap, c), !.v = Abs(M2.heap, M2.ret),
                                    !.n = Len(M2.log) - Len(M.log)]),
                 v, i + 1, d)

\* for (i...) v->cell[i] = lval_eval(e, v->cell[i]); each child is logged with
\* what it was, what it became and how many log entries its evaluation made.
lval_eval_cells(M, v, i, d) ==
  IF i >= count(M, v) \/ M.status # OK THEN M
  ELSE LET c == M.heap[v].cell[i + 1]
           M1 == lval_eval(M, c, d + 1)
       IN IF M1.status # OK THEN M1
          ELSE lval_eval_cells(
                 Emit([M1 EXCEPT !.heap[v].cell[i + 1] = M1.ret],
                      [event EXCEPT !.op = "child", !.depth = d, !.idx = i,
                                    !.arg = Abs(M.heap, c), !.v = Abs(M1.heap, M1.ret),
                                    !.n = Len(M1.log) - Len(M.log)]),
                 v, i + 1, d)

\* The last i with v->cell[i]->type == LVAL_ERR, -1 when there is none.
first_err_last(M, v) ==
  LET errs == {i \in 0..(count(M, v) - 1) : cell_type(M, v, i) = LVAL_ERR}
  IN IF errs = {} THEN -1 ELSE CHOOSE i \in errs : \A j \in errs : i >= j

\* The scan for an Error that stops one child early (i < v->count - 1).
first_err_early(M, v) ==
  LET errs == {i \in 0..(count(M, v) - 2) : cell_type(M, v, i) = LVAL_ERR}
  IN IF errs = {} THEN -1 ELSE CHOOSE i \in errs : \A j \in errs : i <= j

\* The first i with v->cell[i]->type == LVAL_ERR, -1 when there is none.
first_err(M, v) ==
  LET errs == {i \in 0..(count(M, v) - 1) : cell_type(M, v, i) = LVAL_ERR}
  IN IF errs = {} THEN -1 ELSE CHOOSE i \in errs : \A j \in errs : i <= j

\* lval_eval_sexpr that returns a single child still wrapped in its s-expression.
lval_eval_sexpr_wrap(M, v, d) ==
  LET M1 == lval_eval_cells(M, v, 0, d)
  IN IF M1.status # OK THEN M1
     ELSE IF first_err(M1, v) >= 0 THEN lval_take(M1, v, first_err(M1, v))
     ELSE IF count(M1, v) <= 1 THEN Return(M1, v)
     ELSE LET M2 == lval_pop(M1, v, 0)
              f == M2.ret
          IN IF M2.heap[f].type # LVAL_FUN
             THEN lval_err(lval_del(lval_del(M2, f), v), "First element is not a function")
             ELSE LET M3 == fun(Emit(M2, [event EXCEPT !.op = "call", !.depth = d,
                                                       !.sym = M2.heap[f].fun,
                                                       !.v = Abs(M2.heap, v)]),
                                M2.heap[f].fun, v, d)
                  IN IF M3.status # OK THEN M3
                     ELSE Return(lval_del(M3, f), M3.ret)

\* lval_eval_sexpr that hands the remaining children to the function last to first.
lval_eval_sexpr_reversed(M, v, d) ==
  LET M1 == lval_eval_cells(M, v, 0, d)
  IN IF M1.status # OK THEN M1
     ELSE IF first_err(M1, v) >= 0 THEN lval_take(M1, v, first_err(M1, v))
     ELSE IF count(M1, v) = 0 THEN Return(M1, v)
     ELSE IF count(M1, v) = 1 THEN lval_take(M1, v, 0)
     ELSE LET M2 == lval_pop(M1, v, 0)
              f == M2.ret
              n == Len(M2.heap[v].cell)
              R == [M2 EXCEPT !.heap[v].cell = [i \in 1..n |-> M2.heap[v].cell[n + 1 - i]]]
          IN IF R.heap[f].type # LVAL_FUN
             THEN lval_err(lval_del(lval_del(R, f), v), "First element is not a function")
             ELSE LET M3 == fun(Emit(R, [event EXCEPT !.op = "call", !.depth = d,
                                                      !.sym = R.heap[f].fun,
                                                      !.v = Abs(R.heap, v)]),
                                R.heap[f].fun, v, d)
                  IN IF M3.status # OK THEN M3
                     ELSE Return(lval_del(M3, f), M3.ret)

lval_eval_sexpr(M, v, d) ==
  LET M1 == lval_eval_cells(M, v, 0, d)
  IN IF M1.status # OK THEN M1
     ELSE IF first_err(M1, v) >= 0 THEN lval_take(M1, v, first_err(M1, v))
     ELSE IF count(M1, v) = 0 THEN Return(M1, v)
     ELSE IF count(M1, v) = 1 THEN lval_take(M1, v, 0)
     ELSE LET M2 == lval_pop(M1, v, 0)
              f == M2.ret
          IN IF M2.heap[f].type # LVAL_FUN
             THEN lval_err(lval_del(lval_del(M2, f), v), "First element is not a function")
             ELSE LET M3 == fun(Emit(M2, [event EXCEPT !.op = "call", !.depth = d,
                                                       !.sym = M2.heap[f].fun,
                                                       !.v = Abs(M2.heap, v)]),
                                M2.heap[f].fun, v, d)
                  IN IF M3.status # OK THEN M3
                     ELSE Return(lval_del(M3, f), M3.ret)

\* lval_eval that evaluates a Q-expression as it does an S-expression.
lval_eval_qexpr(M, v, d) ==
  IF M.status # OK THEN M
  ELSE IF d > MaxDepth THEN [M EXCEPT !.status = STACK_OVERFLOW]
  ELSE IF M.heap[v].type = LVAL_SYM
  THEN LET M1 == lenv_get(M, v)
       IN Return(lval_del(M1, v), M1.ret)
  ELSE IF M.heap[v].type \in {LVAL_SEXPR, LVAL_QEXPR} THEN lval_eval_sexpr(M, v, d)
  ELSE Return(M, v)

lval_eval(M, v, d) ==
  IF M.status # OK THEN M
  ELSE IF d > MaxDepth THEN [M EXCEPT !.status = STACK_OVERFLOW]
  ELSE IF M.heap[v].type = LVAL_SYM
  THEN LET M1 == lenv_get(M, v)
       IN Return(lval_del(M1, v), M1.ret)
  ELSE IF M.heap[v].type = LVAL_SEXPR THEN lval_eval_sexpr(M, v, d)
  ELSE Return(M, v)

(***************************************************************************)
(* lenv_add_builtin, lenv_add_builtins                                     *)
(***************************************************************************)
lenv_add_builtin(M, name, func) ==
  LET M1 == lval_sym(M, name)
      k == M1.ret
      M2 == lval_fun(M1, func)
      v == M2.ret
  IN lval_del(lval_del(lenv_put(M2, k, v), k), v)

\* The registrations with the word mod registered for the division.
builtins_mod_div ==
  << <<"list", "builtin_list">>, <<"head", "builtin_head">>, <<"tail", "builtin_tail">>,
     <<"eval", "builtin_eval">>, <<"join", "builtin_join">>, <<"cons", "builtin_cons">>,
     <<"len", "builtin_len">>, <<"init", "builtin_init">>, <<"def", "builtin_def">>,
     <<"+", "builtin_add">>, <<"-", "builtin_sub">>, <<"*", "builtin_mul">>,
     <<"/", "builtin_div">>, <<"%", "builtin_mod">>, <<"add", "builtin_add">>,
     <<"sub", "builtin_sub">>, <<"mul", "builtin_mul">>, <<"div", "builtin_div">>,
     <<"mod", "builtin_div">> >>

\* The registrations of lenv_add_builtins, in the order of the source.
builtins ==
  << <<"list", "builtin_list">>, <<"head", "builtin_head">>, <<"tail", "builtin_tail">>,
     <<"eval", "builtin_eval">>, <<"join", "builtin_join">>, <<"cons", "builtin_cons">>,
     <<"len", "builtin_len">>, <<"init", "builtin_init">>, <<"def", "builtin_def">>,
     <<"+", "builtin_add">>, <<"-", "builtin_sub">>, <<"*", "builtin_mul">>,
     <<"/", "builtin_div">>, <<"%", "builtin_mod">>, <<"add", "builtin_add">>,
     <<"sub", "builtin_sub">>, <<"mul", "builtin_mul">>, <<"div", "builtin_div">>,
     <<"mod", "builtin_mod">> >>

RECURSIVE lenv_add_builtins_from(_, _)
lenv_add_builtins_from(M, i) ==
  IF M.status # OK \/ i > Len(builtins) THEN M
  ELSE lenv_add_builtins_from(lenv_add_builtin(M, builtins[i][1], builtins[i][2]), i + 1)

lenv_add_builtins(M) == lenv_add_builtins_from(M, 1)

(***************************************************************************)
(* The heap between two lines holds the nodes of the environment only.     *)
(* Addresses are names: after a line the live nodes are renumbered in the  *)
(* order of the bindings, so that equal environments are equal states.     *)
(***************************************************************************)
RECURSIVE Conc(_, _)
RECURSIVE ConcCells(_, _, _, _)
ConcCells(M, x, cell, i) ==
  IF M.status # OK \/ i > Len(cell) THEN M
  ELSE LET M1 == Conc(M, cell[i])
       IN ConcCells(lval_add(M1, x, M1.ret), x, cell, i + 1)

\* The nodes of tree t, allocated in the heap.
Conc(M, t) ==
  LET M1 == malloc(M, [lval EXCEPT !.type = t.type, !.num = t.num, !.err = t.err,
                                   !.sym = t.sym, !.fun = t.fun])
  IN Return(ConcCells(M1, M1.ret, t.cell, 1), M1.ret)

RECURSIVE LoadFrom(_, _, _)
LoadFrom(M, env, i) ==
  IF M.status # OK \/ i > Len(env.syms) THEN M
  ELSE LET M1 == Conc(M, env.vals[i])
       IN LoadFrom([M1 EXCEPT !.e.syms = Append(@, env.syms[i]),
                              !.e.vals = Append(@, M1.ret)], env, i + 1)

\* The environment of M as trees.
AbsEnv(M) == [syms |-> M.e.syms,
              vals |-> [i \in 1..Len(M.e.vals) |-> Abs(M.heap, M.e.vals[i])]]

\* The machine with the environment of M and nothing else in the heap.
Compact(M) == LoadFrom(machine, AbsEnv(M), 1)

(***************************************************************************)
(* The lines the REPL reads, as the trees mpc_parse returns for them.      *)
(***************************************************************************)
Regex == [mpc_ast_t EXCEPT !.tag = <<"regex">>]
Char(c) == [mpc_ast_t EXCEPT !.tag = <<"char">>, !.contents = c]
Number(s) == [mpc_ast_t EXCEPT !.tag = <<"expr", "number", "regex">>, !.contents = s]
Symbol(s) == [mpc_ast_t EXCEPT !.tag = <<"expr", "symbol", "regex">>, !.contents = s]
Sexpr(cs) == [mpc_ast_t EXCEPT !.tag = <<"expr", "sexpr", ">">>,
                               !.children = <<Char("(")>> \o cs \o <<Char(")")>>]
Qexpr(cs) == [mpc_ast_t EXCEPT !.tag = <<"expr", "qexpr", ">">>,
                               !.children = <<Char("{")>> \o cs \o <<Char("}")>>]
Lispy(cs) == [mpc_ast_t EXCEPT !.tag = <<">">>, !.children = <<Regex>> \o cs \o <<Regex>>]

\* The literals, symbols and lists the lines are made of.
One == Number("1")
Two == Number("2")
X == Symbol("x")
Y == Symbol("y")
Plus == Symbol("+")
Def == Symbol("def")
DivByZero == Sexpr(<<Symbol("/"), One, Number("0")>>)
DivByOne == Sexpr(<<Symbol("/"), One, One>>)
DefX == Sexpr(<<Def, Qexpr(<<X>>), Two>>)
EvalX == Qexpr(<<Symbol("eval"), X>>)
OneTwo == Qexpr(<<One, Two>>)
ListPlus == Sexpr(<<Symbol("list"), Plus>>)

\* What a line starts with.
Heads == {Symbol(s) : s \in {"def", "eval", "head", "tail", "init", "join", "cons",
                             "len", "list", "+", "/", "x"}} \cup {One}

\* What follows the head: atoms, quoted lists and nested s-expressions.
Operands ==
  {One, Number(TooLong), X, Y, Plus, Qexpr(<<>>), Qexpr(<<X>>), OneTwo, EvalX,
   Sexpr(<<>>), ListPlus, DivByZero, DefX}

\* A line of one expression, and a head applied to one operand.
Short ==
  {<<>>} \cup {<<a>> : a \in Heads \cup Operands}
         \cup {<<h, a>> : h \in Heads, a \in Operands}

\* A head applied to two operands.
Pairs ==
  {<<h, a, b>> : h \in {Plus, One, Symbol("cons"), Symbol("join")},
                 a \in {One, X, OneTwo, DivByZero, DefX},
                 b \in {One, X, OneTwo, DivByZero, DefX}}

\* def applied to a list of symbols (or to something else) and one or two values.
Defs ==
  {<<Def, q, v>> : q \in {Qexpr(<<X>>), Qexpr(<<X, Y>>), Qexpr(<<One>>), One},
                   v \in {One, OneTwo, EvalX, X}}
    \cup {<<Def, q, v, w>> : q \in {Qexpr(<<X, Y>>), Qexpr(<<Y, X>>), Qexpr(<<X, X>>)},
                             v \in {One, Two}, w \in {One, Two}}

\* + applied to three operands.
Sums == {<<Plus, a, b, c>> : a \in {One, Y},
                             b \in {One, Y, DivByZero, DivByOne},
                             c \in {One, Y, DivByZero, DivByOne}}

Lines == {Lispy(cs) : cs \in Short \cup Pairs \cup Defs \cup Sums}

\* Lines of arithmetic: an operator or its name applied to one, two or three
\* numbers, and to something that is not a number.
Nums == {Number(ToString(n)) : n \in {0, 1, 2, 3, 4, 5, 7, 8, -7}}
SmallNums == {Number(ToString(n)) : n \in {0, 1, 2, 3, 4, 8}}
Operators == {Symbol(s) : s \in {"+", "-", "*", "/", "%"}}
OperatorNames == {Symbol(s) : s \in {"add", "sub", "mul", "div", "mod"}}

\* Lines of the list builtins: one applied to one, two or three lists, empty,
\* flat or nested, and to what is not a list.
Lists == {Qexpr(<<>>), Qexpr(<<One>>), OneTwo, Qexpr(<<X, Y>>), Qexpr(<<OneTwo>>),
          Qexpr(<<Two, OneTwo, Plus>>)}
Atoms == {One, Plus, Sexpr(<<>>)}
ListBuiltins == {Symbol(s) : s \in {"head", "tail", "init", "len", "join", "cons"}}

ListLines ==
  {Lispy(cs) : cs \in
     {<<f, a>> : f \in ListBuiltins, a \in Lists \cup Atoms}
       \cup {<<f, a, b>> : f \in ListBuiltins, a \in Lists \cup Atoms, b \in Lists \cup Atoms}
       \cup {<<f, a, b, c>> : f \in {Symbol("join"), Symbol("cons")},
                               a \in {Qexpr(<<>>), Qexpr(<<One>>), OneTwo, One},
                               b \in {Qexpr(<<>>), Qexpr(<<One>>), OneTwo, One},
                               c \in {Qexpr(<<>>), Qexpr(<<Two>>), Plus}}}

\* Lines of def and eval: def applied to a list of names (or to something
\* else) and to as many values, or more, or fewer; a name alone; eval applied
\* to a list, to a name and to what is not a list.
Plus12 == Qexpr(<<Plus, One, Two>>)
QDefX == Qexpr(<<Def, Qexpr(<<X>>), One>>)

DefLines ==
  {Lispy(cs) : cs \in
     {<<Def, q>> : q \in {Qexpr(<<>>), Qexpr(<<X>>), One}}
       \cup {<<Def, q, v>> : q \in {Qexpr(<<>>), Qexpr(<<X>>), Qexpr(<<Y>>), Qexpr(<<X, Y>>),
                                     Qexpr(<<X, One>>), Qexpr(<<One>>), One, Plus},
                             v \in {One, Two, Plus12, EvalX}}
       \cup {<<Def, q, v, w>> : q \in {Qexpr(<<X, Y>>), Qexpr(<<Y, X>>), Qexpr(<<X, X>>),
                                        Qexpr(<<X>>), Qexpr(<<X, One>>), Qexpr(<<One, X>>)},
                                v \in {One, Two}, w \in {One, Two}}
       \cup {<<X>>, <<Y>>}
       \cup {<<Symbol("eval"), a>> :
               a \in {Qexpr(<<>>), Qexpr(<<Number("5")>>), Plus12, QDefX, Qexpr(<<X>>), EvalX,
                      OneTwo, Qexpr(<<Plus, X, DivByZero>>), Qexpr(<<Plus>>), X, One, Plus,
                      Sexpr(<<>>)}}
       \cup {<<Symbol("eval"), a, b>> : a \in {Plus12, One}, b \in {Plus12, QDefX}}}

ArithLines ==
  {Lispy(cs) : cs \in
     {<<o, a>> : o \in Operators \cup OperatorNames, a \in Nums \cup {OneTwo, Plus, Sexpr(<<>>)}}
       \cup {<<o, a, b>> : o \in Operators \cup OperatorNames, a \in Nums, b \in Nums}
       \cup {<<o, a, b, c>> : o \in Operators, a \in SmallNums, b \in SmallNums, c \in SmallNums}
       \cup {<<o, a, b>> : o \in Operators, a \in {One, OneTwo}, b \in {OneTwo, Plus, Sexpr(<<>>)}}}

\* Lines that bind: def applied to one name (x, y or the name of a builtin)
\* and to two names, with values that are numbers or names; a name alone; a
\* sum by the operator and by its word.
BuiltinNames == {Symbol(s) : s \in {"+", "def", "head"}}

BindLines ==
  {Lispy(cs) : cs \in
     {<<Def, Qexpr(<<n>>), v>> : n \in {X, Y} \cup BuiltinNames, v \in {One, Two, X}}
       \cup {<<Def, q, v, w>> : q \in {Qexpr(<<X, Y>>), Qexpr(<<Y, X>>), Qexpr(<<X, X>>)},
                                v \in {One, Two, X}, w \in {One, Two, X}}
       \cup {<<X>>, <<Y>>, <<Plus, One, Two>>, <<Symbol("add"), One, Two>>,
              <<Symbol("head"), OneTwo>>}}

(***************************************************************************)
(* The read-eval-print loop of main                                        *)
(***************************************************************************)
VARIABLES pc, heap, e, x, input, log, status, lines

vars == <<pc, heap, e, x, input, log, status, lines>>

\* The running process.
Process == [machine EXCEPT !.heap = heap, !.e = e]

\* The value x points to, once the line is evaluated.
output == IF pc = "print" THEN Abs(heap, x) ELSE tree

\* The live nodes of M are its first k nodes and no pointer leaves them.
Packed(M, k) ==
  /\ \A a \in 1..Len(M.heap) : M.heap[a].live <=> a <= k
  /\ \A i \in 1..Len(M.e.vals) : M.e.vals[i] <= k
  /\ \A a \in 1..k : \A i \in 1..Len(M.heap[a].cell) : M.heap[a].cell[i] <= k

\* lenv* e = lenv_new(); lenv_add_builtins(e);
Init ==
  /\ pc = "read"
  /\ heap = Compact(lenv_add_builtins(machine)).heap
  /\ e = Compact(lenv_add_builtins(machine)).e
  /\ x = 0
  /\ input = mpc_ast_t
  /\ log = <<>>
  /\ status = OK
  /\ lines = 0

\* char* input = readline("lc> "); and mpc_parse succeeds with r.output one of L
Read(L) ==
  /\ pc = "read"
  /\ lines < MaxLines
  /\ \E t \in L : input' = t
  /\ pc' = "eval"
  /\ lines' = lines + 1
  /\ UNCHANGED <<heap, e, x, log, status>>

\* readline and a failed mpc_parse: the error is printed, nothing is evaluated
ParseError ==
  /\ pc = "read"
  /\ lines < MaxLines
  /\ lines' = lines + 1
  /\ UNCHANGED <<pc, heap, e, x, input, log, status>>

\* lval* x = lval_eval(e, lval_read(r.output));
\* The outcome of an undefined operation is drawn when the evaluation reaches one.
Run(u) ==
  LET M1 == lval_read([Process EXCEPT !.ub = u], input)
  IN lval_eval(M1, M1.ret, 0)

Eval ==
  /\ pc = "eval"
  /\ LET T == Run("SIGFPE")
     IN \E M2 \in IF T.status = SIGFPE THEN {Run(u) : u \in UB} ELSE {T} :
        /\ heap' = M2.heap
        /\ e' = M2.e
        /\ log' = M2.log
        /\ status' = M2.status
        /\ IF M2.status = OK
           THEN pc' = "print" /\ x' = M2.ret
           ELSE pc' = "dead" /\ x' = 0
  /\ UNCHANGED <<input, lines>>

\* lval_println(x); lval_del(x); mpc_ast_delete(r.output); free(input);
Println ==
  /\ pc = "print"
  /\ LET M3 == lval_del(Process, x)
         k == Cardinality({a \in 1..Len(heap) : M3.heap[a].live})
     IN /\ status' = M3.status
        /\ pc' = IF M3.status = OK THEN "read" ELSE "dead"
        /\ IF Packed(M3, k)
           THEN heap' = SubSeq(M3.heap, 1, k) /\ e' = M3.e
           ELSE heap' = Compact(M3).heap /\ e' = Compact(M3).e
  /\ x' = 0
  /\ input' = mpc_ast_t
  /\ log' = <<>>
  /\ UNCHANGED lines

Next == Read(Lines) \/ ParseError \/ Eval \/ Println

Spec == Init /\ [][Next]_vars

\* The loop fed with lines of arithmetic.
NextArith == Read(ArithLines) \/ ParseError \/ Eval \/ Println

SpecArith == Init /\ [][NextArith]_vars

\* The loop fed with lines of def and eval.
NextDef == Read(DefLines) \/ ParseError \/ Eval \/ Println

SpecDef == Init /\ [][NextDef]_vars

\* The loop fed with lines of the list builtins.
NextList == Read(ListLines) \/ ParseError \/ Eval \/ Println

SpecList == Init /\ [][NextList]_vars

\* The loop fed with lines that bind names.
NextBind == Read(BindLines) \/ ParseError \/ Eval \/ Println

SpecBind == Init /\ [][NextBind]_vars

(***************************************************************************)
(* Views of the state used by the properties                               *)
(***************************************************************************)
\* The environment as trees.
Env == AbsEnv(Process)

\* Trees by type.
NumTree(n) == [tree EXCEPT !.type = LVAL_NUM, !.num = n]
ErrTree(m) == [tree EXCEPT !.type = LVAL_ERR, !.err = m]
SymTree(s) == [tree EXCEPT !.type = LVAL_SYM, !.sym = s]
FunTree(f) == [tree EXCEPT !.type = LVAL_FUN, !.fun = f]
SexprTree(cs) == [tree EXCEPT !.type = LVAL_SEXPR, !.cell = cs]
QexprTree(cs) == [tree EXCEPT !.type = LVAL_QEXPR, !.cell = cs]

\* The value that a lookup of name s finds.
Bound(s) == lenv_find(e.syms, s) # 0
Val(s) == Abs(heap, e.vals[lenv_find(e.syms, s)])

\* The log entries of one kind; those of the line's own s-expression have depth 0.
Puts(l) == SelectSeq(l, LAMBDA ev : ev.op = "put")
Children0(l) == SelectSeq(l, LAMBDA ev : ev.op = "child" /\ ev.depth = 0)
Calls0(l) == SelectSeq(l, LAMBDA ev : ev.op = "call" /\ ev.depth = 0)

\* The expressions of the line that was read.
Exprs == SubSeq(input.children, 2, Len(input.children) - 1)

\* The value lval_read makes of an expression of the line.
ReadTree(t) == Abs(lval_read(machine, t).heap, lval_read(machine, t).ret)

\* The positions of the children of the line that became an Error.
Errs(cs) == {i \in 1..Len(cs) : cs[i].v.type = LVAL_ERR}
Min(S) == CHOOSE i \in S : \A j \in S : i <= j

\* An environment of trees after the puts of a log, in order.
RECURSIVE AfterPuts(_, _, _)
AfterPuts(env, puts, i) ==
  IF i > Len(puts) THEN env
  ELSE LET k == lenv_find(env.syms, puts[i].sym)
       IN AfterPuts(IF k # 0 THEN [env EXCEPT !.vals[k] = puts[i].v]
                    ELSE [syms |-> Append(env.syms, puts[i].sym),
                          vals |-> Append(env.vals, puts[i].v)],
                    puts, i + 1)

\* No node of the environment was touched.
EnvUntouched == e' = e /\ SubSeq(heap', 1, Len(heap)) = heap

(***************************************************************************)
(* C1: every evaluation terminates with a value or an Error; here, the     *)
(* process never dies of a stack overflow, whatever was stored with def.   *)
(* The code breaks it: after (def {x} {eval x}), (eval x) recurses until   *)
(* the stack is exhausted.                                                 *)
(***************************************************************************)
C1_EvalTerminates == status # STACK_OVERFLOW

(***************************************************************************)
(* C2: evaluating a line changes the environment only by the puts of a     *)
(* def: without a put no node of the environment is touched (a lookup      *)
(* hands out a copy, so head, tail, init, join, cons, len and eval work    *)
(* on the copy), with puts the environment is the old one with exactly     *)
(* those names rebound, and every put belongs to a call of def.  Printing  *)
(* and freeing the result leaves the environment as it is.                 *)
(***************************************************************************)
C2_PutsOfDef(l) ==
  \A k \in 1..Len(l) :
    l[k].op = "put" =>
      \E j \in 1..(k - 1) :
        /\ l[j].op = "call" /\ l[j].sym = "builtin_def"
        /\ \A m \in (j + 1)..k : l[m].op = "put"

C2_Step ==
  /\ pc = "eval" /\ pc' = "print" =>
       /\ C2_PutsOfDef(log')
       /\ IF Puts(log') = <<>> THEN EnvUntouched
          ELSE Env' = AfterPuts(Env, Puts(log'), 1)
  /\ pc = "print" /\ pc' = "read" => Env' = Env

C2_EnvChangesOnlyByDef == [][C2_Step]_vars

\* x is bound to {1 2} and (head x) has just returned {1}.
C2_Witness ==
  /\ pc = "print"
  /\ input = Lispy(<<Symbol("head"), X>>)
  /\ Bound("x") /\ Val("x") = [tree EXCEPT !.type = LVAL_QEXPR,
                                 !.cell = << [tree EXCEPT !.type = LVAL_NUM, !.num = 1],
                                             [tree EXCEPT !.type = LVAL_NUM, !.num = 2] >>]
  /\ output = [tree EXCEPT !.type = LVAL_QEXPR,
                 !.cell = << [tree EXCEPT !.type = LVAL_NUM, !.num = 1] >>]

(***************************************************************************)
(* C3: no name occurs twice in the environment.  When a line has been      *)
(* evaluated, the names it put that were bound before did not change the   *)
(* number of bindings, every name it put is bound to the value of the last *)
(* put of that name, and every other binding has the value it had.         *)
(***************************************************************************)
NoDup(syms) == \A i, j \in 1..Len(syms) : syms[i] = syms[j] => i = j

PutNames(puts) == {puts[k].sym : k \in 1..Len(puts)}

LastPut(puts, s) ==
  puts[CHOOSE k \in 1..Len(puts) :
         puts[k].sym = s /\ \A m \in (k + 1)..Len(puts) : puts[m].sym # s].v

C3_Step ==
  pc = "eval" /\ pc' = "print" =>
    LET puts == Puts(log')
        names == PutNames(puts)
    IN /\ Len(e'.syms) = Len(e.syms) + Cardinality({s \in names : ~Bound(s)})
       /\ \A s \in names : Bound(s)' /\ Val(s)' = LastPut(puts, s)
       /\ \A i \in 1..Len(e.syms) :
            e.syms[i] \notin names => Bound(e.syms[i])' /\ Val(e.syms[i])' = Val(e.syms[i])

C3_LastWriteWins == []NoDup(e.syms) /\ [][C3_Step]_vars

\* (def {x x} 1 2) has put x twice: one binding was added and x is 2.
C3_Witness ==
  /\ pc = "print"
  /\ input = Lispy(<<Def, Qexpr(<<X, X>>), One, Two>>)
  /\ Len(Puts(log)) = 2
  /\ Len(e.syms) = Len(builtins) + 1
  /\ Bound("x") /\ Val("x") = [tree EXCEPT !.type = LVAL_NUM, !.num = 2]

(***************************************************************************)
(* C4: the environment only grows and keeps its order.  Every step leaves  *)
(* the names bound before at their positions, and the names a line put     *)
(* that were not bound follow them in the order of their first put.        *)
(***************************************************************************)
IsPrefix(s, t) == Len(s) <= Len(t) /\ SubSeq(t, 1, Len(s)) = s

RECURSIVE Appended(_, _, _)
Appended(syms, puts, i) ==
  IF i > Len(puts) THEN syms
  ELSE Appended(IF \E k \in 1..Len(syms) : syms[k] = puts[i].sym THEN syms
                ELSE Append(syms, puts[i].sym),
                puts, i + 1)

C4_Step ==
  /\ IsPrefix(e.syms, e'.syms)
  /\ Len(e'.vals) = Len(e'.syms)
  /\ pc = "eval" /\ pc' = "print" => e'.syms = Appended(e.syms, Puts(log'), 1)

C4_GrowsInOrder == [][C4_Step]_vars

\* x was bound before y, and (def {x} {1 2}) has rebound it where it was.
C4_Witness ==
  /\ pc = "print"
  /\ input = Lispy(<<Def, Qexpr(<<X>>), OneTwo>>)
  /\ Len(Puts(log)) = 1
  /\ SubSeq(e.syms, Len(builtins) + 1, Len(e.syms)) = <<"x", "y">>
  /\ Val("x") = QexprTree(<<NumTree(1), NumTree(2)>>)
  /\ Val("y") \in {NumTree(1), NumTree(2)}

(***************************************************************************)
(* C5: a symbol evaluates to a copy of the value its name is bound to at   *)
(* that moment, or, when the name is not bound, to the Error               *)
(* "unbound symbol '<name>'!".  Its evaluation is one lookup and nothing   *)
(* else; a line that is one symbol ends with a value to print and leaves   *)
(* every node of the environment as it was.                                *)
(***************************************************************************)
C5_Step ==
  pc = "eval" =>
    /\ \A k \in 1..Len(log') :
         log'[k].op = "child" /\ log'[k].arg.type = LVAL_SYM =>
           LET s == log'[k].arg.sym
               env == AfterPuts(Env, Puts(SubSeq(log', 1, k)), 1)
               i == lenv_find(env.syms, s)
           IN /\ log'[k].n = 1
              /\ log'[k - 1].op = "get" /\ log'[k - 1].sym = s
              /\ log'[k].v = IF i # 0 THEN env.vals[i]
                             ELSE ErrTree("unbound symbol '" \o s \o "'!")
    /\ Len(Exprs) = 1 /\ ReadTree(Exprs[1]).type = LVAL_SYM =>
         /\ pc' = "print" /\ status' = OK
         /\ Len(log') = 2
         /\ output' = log'[2].v
         /\ EnvUntouched

C5_SymbolLookup == [][C5_Step]_vars

\* In (x y), x is bound and y is not: x became its value, y the Error that names y.
C5_Witness ==
  /\ pc = "print"
  /\ input = Lispy(<<X, Y>>)
  /\ Bound("x") /\ ~Bound("y")
  /\ Children0(log)[1].v = Val("x")
  /\ Children0(log)[2].v = ErrTree("unbound symbol 'y'!")
  /\ output = ErrTree("unbound symbol 'y'!")

(***************************************************************************)
(* C6: a Number, an Error, a Function and a Q-expression evaluate to       *)
(* themselves: the value is the one that was there, children included, and *)
(* its evaluation makes no lookup, no put and no call.  A line that is one *)
(* such value prints it and leaves every node of the environment as it     *)
(* was.                                                                    *)
(***************************************************************************)
SelfEvaluating == {LVAL_NUM, LVAL_ERR, LVAL_FUN, LVAL_QEXPR}

C6_Step ==
  pc = "eval" =>
    /\ \A k \in 1..Len(log') :
         log'[k].op = "child" /\ log'[k].arg.type \in SelfEvaluating =>
           log'[k].v = log'[k].arg /\ log'[k].n = 0
    /\ Len(Exprs) = 1 /\ ReadTree(Exprs[1]).type \in SelfEvaluating =>
         /\ pc' = "print" /\ status' = OK
         /\ Len(log') = 1
         /\ output' = ReadTree(Exprs[1])
         /\ EnvUntouched

C6_SelfEvaluating == [][C6_Step]_vars

\* x is bound and the line {x} has been evaluated: the result is {x}, without a lookup.
C6_Witness ==
  /\ pc = "print"
  /\ input = Lispy(<<Qexpr(<<X>>)>>)
  /\ Bound("x")
  /\ output = QexprTree(<<SymTree("x")>>)
  /\ Len(log) = 1

(***************************************************************************)
(* C7: the children of the line's s-expression are evaluated from left to  *)
(* right, each from what was read, and when one or more of them became an  *)
(* Error the result is the Error of the leftmost such child.               *)
(***************************************************************************)
C7_LeftmostError ==
  pc = "print" =>
    LET cs == Children0(log)
    IN /\ \A i \in 1..Len(cs) : cs[i].idx = i - 1 /\ cs[i].arg = ReadTree(Exprs[i])
       /\ Errs(cs) # {} => output = cs[Min(Errs(cs))].v

\* (+ y (/ 1 0) 1) with y not bound: two children failed, the result is the error of y.
C7_Witness ==
  /\ pc = "print"
  /\ input = Lispy(<<Plus, Y, DivByZero, One>>)
  /\ Errs(Children0(log)) = {2, 3}
  /\ Children0(log)[3].v = ErrTree("Division by zero!")
  /\ output = ErrTree("unbound symbol 'y'!")

(***************************************************************************)
(* C8 as stated: evaluation stops at the first child that became an Error, *)
(* nothing is evaluated or put after it.  The code evaluates every child   *)
(* before it looks for an Error, so this fails.                            *)
(***************************************************************************)
C8_ShortCircuit ==
  pc = "print" =>
    \A k \in 1..Len(log) :
      log[k].op = "child" /\ log[k].depth = 0 /\ log[k].v.type = LVAL_ERR => k = Len(log)

(***************************************************************************)
(* C8 amended: every child of the line's s-expression is evaluated, also   *)
(* those to the right of a child that became an Error, and what a def      *)
(* among them put is bound afterwards; only the call of the function at    *)
(* the head is left out when a child became an Error.                      *)
(***************************************************************************)
C8_AllChildrenEvaluated ==
  pc = "print" =>
    LET cs == Children0(log)
        puts == Puts(log)
    IN /\ Len(cs) = Len(Exprs)
       /\ Errs(cs) # {} => Calls0(log) = <<>>
       /\ \A s \in PutNames(puts) : Bound(s) /\ Val(s) = LastPut(puts, s)

\* (+ (/ 1 0) (def {x} 2)): the division failed, the def to its right has bound x.
C8_Witness ==
  /\ pc = "print"
  /\ input = Lispy(<<Plus, DivByZero, DefX>>)
  /\ output = ErrTree("Division by zero!")
  /\ Len(Puts(log)) = 1 /\ Puts(log)[1].sym = "x"
  /\ Bound("x") /\ Val("x") = NumTree(2)

(***************************************************************************)
(* C9: the empty line evaluates to the empty s-expression and nothing      *)
(* happens; a line of one expression evaluates to what that expression     *)
(* evaluates to and nothing happens after its evaluation: no function is   *)
(* called, also when the value is a Function.  A nested () stays ().       *)
(***************************************************************************)
C9_EmptyAndSingle ==
  pc = "print" =>
    /\ Len(Exprs) = 0 => output = SexprTree(<<>>) /\ log = <<>>
    /\ Len(Exprs) = 1 =>
         /\ log # <<>>
         /\ log[Len(log)].op = "child" /\ log[Len(log)].depth = 0 /\ log[Len(log)].idx = 0
         /\ log[Len(log)].n = Len(log) - 1
         /\ output = log[Len(log)].v
         /\ Calls0(log) = <<>>
    /\ \A k \in 1..Len(log) :
         log[k].op = "child" /\ log[k].arg = SexprTree(<<>>) =>
           log[k].v = SexprTree(<<>>) /\ log[k].n = 0

\* The line + has been evaluated: the result is the function, which was not called.
C9_Witness ==
  /\ pc = "print"
  /\ input = Lispy(<<Plus>>)
  /\ output = FunTree("builtin_add")
  /\ Len(log) = 2

(***************************************************************************)
(* C10: for a line of two or more expressions.  When a child became an     *)
(* Error, that Error is the result and no function is called.  Otherwise,  *)
(* when the first child did not become a Function the result is the Error  *)
(* "First element is not a function" and nothing is called; when it did,   *)
(* that function is called once, after the last child was evaluated, with  *)
(* the values of the remaining children in their order.                    *)
(***************************************************************************)
C10_Application ==
  pc = "print" /\ Len(Exprs) >= 2 =>
    LET cs == Children0(log)
        last == CHOOSE k \in 1..Len(log) :
                  log[k].op = "child" /\ log[k].depth = 0 /\ log[k].idx = Len(Exprs) - 1
    IN /\ Len(cs) = Len(Exprs)
       /\ IF Errs(cs) # {}
          THEN output.type = LVAL_ERR /\ output \in {cs[i].v : i \in Errs(cs)}
               /\ last = Len(log)
          ELSE IF cs[1].v.type # LVAL_FUN
          THEN output = ErrTree("First element is not a function") /\ last = Len(log)
          ELSE /\ Len(Calls0(log)) = 1
               /\ log[last + 1] = [event EXCEPT
                                     !.op = "call", !.depth = 0, !.sym = cs[1].v.fun,
                                     !.v = SexprTree([i \in 1..(Len(cs) - 1) |-> cs[i + 1].v])]

\* (cons 1 {1 2}) is {1 1 2}: cons was called once with 1 and {1 2}, in this order.
C10_Witness ==
  /\ pc = "print"
  /\ input = Lispy(<<Symbol("cons"), One, OneTwo>>)
  /\ Len(Calls0(log)) = 1
  /\ Calls0(log)[1].v = SexprTree(<<NumTree(1), QexprTree(<<NumTree(1), NumTree(2)>>)>>)
  /\ output = QexprTree(<<NumTree(1), NumTree(1), NumTree(2)>>)

(***************************************************************************)
(* Views of a call of an arithmetic builtin by the line's s-expression     *)
(***************************************************************************)
\* The operator a builtin hands to builtin_op, by the builtin's name.
Arithmetic ==
  [f \in {"builtin_add", "builtin_sub", "builtin_mul", "builtin_div", "builtin_mod"} |->
     CASE f = "builtin_add" -> "+" [] f = "builtin_sub" -> "-" [] f = "builtin_mul" -> "*"
       [] f = "builtin_div" -> "/" [] f = "builtin_mod" -> "%"]

\* The line's s-expression has called builtin f; Args are the values it handed over.
Called(f) == pc \in {"print", "dead"} /\ Calls0(log) # <<>> /\ Calls0(log)[1].sym = f
Args == Calls0(log)[1].v.cell
AllNums(cs) == \A i \in 1..Len(cs) : cs[i].type = LVAL_NUM
ZeroDivisor(cs) == \E i \in 2..Len(cs) : cs[i].num = 0

(***************************************************************************)
(* C11: % applied to numbers with a zero among the right operands returns  *)
(* the Error "Division by zero!" and the process stays alive.  The code    *)
(* has no test for zero in front of x->num %= y->num: the process is       *)
(* killed or goes on with a number.                                        *)
(***************************************************************************)
C11_ModByZero ==
  /\ status # SIGFPE
  /\ Called("builtin_mod") /\ AllNums(Args) /\ ZeroDivisor(Args) =>
       pc = "print" /\ output = ErrTree("Division by zero!")

(***************************************************************************)
(* C12: / applied to numbers with a zero among the right operands returns  *)
(* the Error "Division by zero!", whatever the operands before and after   *)
(* the zero are.                                                           *)
(***************************************************************************)
C12_DivByZero ==
  Called("builtin_div") /\ AllNums(Args) /\ ZeroDivisor(Args) =>
    pc = "print" /\ output = ErrTree("Division by zero!")

\* (/ 8 0 2): the operand 2 behind the zero does not count.
C12_Witness ==
  /\ pc = "print"
  /\ input = Lispy(<<Symbol("/"), Number("8"), Number("0"), Number("2")>>)
  /\ Called("builtin_div") /\ Len(Args) = 3
  /\ output = ErrTree("Division by zero!")

(***************************************************************************)
(* C13: an arithmetic builtin applied to numbers without a zero divisor    *)
(* returns the left fold ((a1 op a2) op a3) ... of its operator, / and %   *)
(* truncating towards zero; applied to one number it returns that number,  *)
(* negated for -.  When an argument is not a number the result is the      *)
(* Error "Cannot operate on a non-number!".                                *)
(***************************************************************************)
\* The quotient of m by n rounded towards zero, and what remains.
Quot(m, n) ==
  CHOOSE q \in -abs(m)..abs(m) :
    /\ abs(q) * abs(n) <= abs(m) /\ abs(m) - abs(q) * abs(n) < abs(n)
    /\ q > 0 => (m < 0) = (n < 0)
    /\ q < 0 => (m < 0) # (n < 0)
Rem(m, n) == m - n * Quot(m, n)

Apply(op, m, n) ==
  CASE op = "+" -> m + n [] op = "-" -> m - n [] op = "*" -> m * n
    [] op = "/" -> Quot(m, n) [] op = "%" -> Rem(m, n)

RECURSIVE LeftFold(_, _, _, _)
LeftFold(op, cs, i, acc) ==
  IF i > Len(cs) THEN acc ELSE LeftFold(op, cs, i + 1, Apply(op, acc, cs[i].num))

OneList == Len(Args) = 1 /\ Args[1].type = LVAL_QEXPR
AllBut(cs, i) == SubSeq(cs, 1, i - 1) \o SubSeq(cs, i + 1, Len(cs))

C14_HeadTailInit ==
  \A f \in {"head", "tail", "init"} :
    Called("builtin_" \o f) /\ OneList =>
      /\ pc = "print"
      /\ output =
           IF Args[1].cell = <<>> THEN ErrTree("Function '" \o f \o "' passed {}!")
           ELSE QexprTree(CASE f = "head" -> <<Args[1].cell[1]>>
                            [] f = "tail" -> AllBut(Args[1].cell, 1)
                            [] f = "init" -> AllBut(Args[1].cell, Len(Args[1].cell)))

\* (init {2 {1 2} +}) is {2 {1 2}}.
C14_Witness ==
  /\ pc = "print"
  /\ input = Lispy(<<Symbol("init"), Qexpr(<<Two, OneTwo, Plus>>)>>)
  /\ Called("builtin_init") /\ OneList /\ Len(Args[1].cell) = 3
  /\ output = QexprTree(<<NumTree(2), QexprTree(<<NumTree(1), NumTree(2)>>)>>)

(***************************************************************************)
(* C15: join applied to Q-expressions returns the Q-expression of their    *)
(* children, in the order of the arguments and in their own order.  When   *)
(* an argument is not a Q-expression it returns the Error that names the   *)
(* position of the first such argument and its type.  No node of the       *)
(* environment is touched.                                                 *)
(***************************************************************************)
RECURSIVE Concat(_, _)
Concat(cs, i) == IF i > Len(cs) THEN <<>> ELSE cs[i].cell \o Concat(cs, i + 1)

NotLists(cs) == {i \in 1..Len(cs) : cs[i].type # LVAL_QEXPR}

C15_Joined ==
  Called("builtin_join") =>
    /\ pc = "print"
    /\ output =
         IF NotLists(Args) = {} THEN QexprTree(Concat(Args, 1))
         ELSE ErrTree("Function 'join' passed incorrect type for argument "
                        \o ToString(Min(NotLists(Args)) - 1) \o "!. Got "
                        \o ltype_name(Args[Min(NotLists(Args))].type)
                        \o ", Expected Q-Expression")

C15_Step == (pc = "eval" /\ pc' # "eval") => C15_Joined' /\ (Called("builtin_join")' => EnvUntouched)

C15_Join == [][C15_Step]_vars

\* (join {1} {1 2} {2}) is {1 1 2 2}.
C15_Witness ==
  /\ pc = "print"
  /\ input = Lispy(<<Symbol("join"), Qexpr(<<One>>), OneTwo, Qexpr(<<Two>>)>>)
  /\ Called("builtin_join") /\ Len(Args) = 3
  /\ output = QexprTree(<<NumTree(1), NumTree(1), NumTree(2), NumTree(2)>>)

(***************************************************************************)
(* C16 as stated: cons applied to a value x of any type and a Q-expression *)
(* q returns the Q-expression of x followed by the children of q.  The     *)
(* code asserts that x is a Q-expression or a Number, so this fails for a  *)
(* Function and for ().                                                    *)
(***************************************************************************)
ConsOnList == Called("builtin_cons") /\ Len(Args) = 2 /\ Args[2].type = LVAL_QEXPR

C16_ConsAnyType ==
  ConsOnList => pc = "print" /\ output = QexprTree(<<Args[1]>> \o Args[2].cell)

(***************************************************************************)
(* C16 amended: cons applied to x and a Q-expression q returns the         *)
(* Q-expression of x followed by the children of q when x is a Number or a *)
(* Q-expression; for an x of another type it returns the Error "Function   *)
(* 'cons' passed incorrect type for argument 0!. Got <type>, Expected      *)
(* Q-Expression or Number".                                                *)
(***************************************************************************)
C16_ConsNumberOrList ==
  ConsOnList =>
    /\ pc = "print"
    /\ output =
         IF Args[1].type \in {LVAL_NUM, LVAL_QEXPR}
         THEN QexprTree(<<Args[1]>> \o Args[2].cell)
         ELSE ErrTree("Function 'cons' passed incorrect type for argument 0!. Got "
                        \o ltype_name(Args[1].type) \o ", Expected Q-Expression or Number")

\* (cons + {1}) is refused: + is a Function.
C16_Witness ==
  /\ pc = "print"
  /\ input = Lispy(<<Symbol("cons"), Plus, Qexpr(<<One>>)>>)
  /\ ConsOnList /\ Args[1] = FunTree("builtin_add")
  /\ output = ErrTree("Function 'cons' passed incorrect type for argument 0!. "
                       \o "Got Function, Expected Q-Expression or Number")

(***************************************************************************)
(* C17: len applied to one Q-expression returns the number of its          *)
(* children, a nested list counting as one; applied to anything else, or   *)
(* to more than one argument, it returns an Error.                         *)
(***************************************************************************)
C17_Len ==
  Called("builtin_len") =>
    /\ pc = "print"
    /\ IF OneList THEN output = NumTree(Len(Args[1].cell)) ELSE output.type = LVAL_ERR

\* (len {2 {1 2} +}) is 3.
C17_Witness ==
  /\ pc = "print"
  /\ input = Lispy(<<Symbol("len"), Qexpr(<<Two, OneTwo, Plus>>)>>)
  /\ Called("builtin_len") /\ OneList
  /\ output = NumTree(3)

(***************************************************************************)
(* C18: eval applied to one Q-expression gives what the evaluation of the  *)
(* S-expression of the same children gives in the same environment: the    *)
(* same value and the same environment afterwards, or the same death of    *)
(* the process.  Applied to anything else, or to more than one argument,   *)
(* it returns an Error and nothing happens after the call.                 *)
(***************************************************************************)
\* The evaluation of the S-expression with the children of q, as the
\* expression of a line, in the environment the line was read in.
Direct(q) ==
  LET M0 == Conc(Process, SexprTree(q.cell))
  IN lval_eval(M0, M0.ret, 1)

C18_Step ==
  pc = "eval" /\ Called("builtin_eval")' =>
    IF OneList'
    THEN LET D == Direct(Args'[1])
         IN /\ status' = D.status
            /\ D.status = OK => output' = Abs(D.heap, D.ret) /\ Env' = AbsEnv(D)
    ELSE /\ pc' = "print" /\ output'.type = LVAL_ERR
         /\ log'[Len(log')].op = "call" /\ log'[Len(log')].depth = 0
         /\ EnvUntouched

C18_EvalAsSexpr == [][C18_Step]_vars

\* (eval {def {x} 1}) has returned () and bound x to 1, as (def {x} 1) does.
C18_Witness ==
  /\ pc = "print"
  /\ input = Lispy(<<Symbol("eval"), QDefX>>)
  /\ Called("builtin_eval") /\ OneList
  /\ Len(Puts(log)) = 1
  /\ output = SexprTree(<<>>)
  /\ Bound("x") /\ Val("x") = NumTree(1)

(***************************************************************************)
(* C19: def applied to a list of n symbols and n values puts the i-th      *)
(* value for the i-th symbol, from left to right, and returns ().          *)
(* Afterwards each symbol is bound to its value, to the last one when it   *)
(* occurs more than once, and every other binding is as it was.            *)
(***************************************************************************)
Names(q) == [i \in 1..Len(q.cell) |-> q.cell[i].sym]

\* The lookup of name s in environment env of heap h.
BoundIn(env, s) == lenv_find(env.syms, s) # 0
ValIn(h, env, s) == Abs(h, env.vals[lenv_find(env.syms, s)])

WellFormedDef ==
  /\ Args[1].type = LVAL_QEXPR
  /\ \A i \in 1..Len(Args[1].cell) : Args[1].cell[i].type = LVAL_SYM
  /\ Len(Args[1].cell) = Len(Args) - 1

C19_Step ==
  pc = "eval" /\ Called("builtin_def")' /\ WellFormedDef' =>
    LET names == Names(Args'[1])
        puts == Puts(log')
    IN /\ pc' = "print" /\ output' = SexprTree(<<>>)
       /\ Len(puts) = Len(names)
       /\ \A i \in 1..Len(names) : puts[i].sym = names[i] /\ puts[i].v = Args'[i + 1]
       /\ \A i \in 1..Len(names) :
            (\A j \in (i + 1)..Len(names) : names[j] # names[i]) =>
              BoundIn(e', names[i]) /\ ValIn(heap', e', names[i]) = Args'[i + 1]
       /\ \A i \in 1..Len(e.syms) :
            (\A j \in 1..Len(names) : names[j] # e.syms[i]) =>
              e'.syms[i] = e.syms[i] /\ Val(e.syms[i])' = Val(e.syms[i])

C19_Def == [][C19_Step]_vars

\* (def {y x} 1 2) with x bound before: y is 1, x is 2.
C19_Witness ==
  /\ pc = "print"
  /\ input = Lispy(<<Def, Qexpr(<<Y, X>>), One, Two>>)
  /\ Called("builtin_def") /\ WellFormedDef
  /\ SubSeq(e.syms, Len(builtins) + 1, Len(e.syms)) = <<"x", "y">>
  /\ Val("y") = NumTree(1) /\ Val("x") = NumTree(2)
  /\ output = SexprTree(<<>>)

(***************************************************************************)
(* C20: def applied to a first argument that is not a Q-expression, to a   *)
(* list that holds something that is not a symbol, or to a number of       *)
(* values that is not the number of symbols returns the Error of the first *)
(* of these conditions that applies, puts nothing and leaves every node of *)
(* the environment as it was.                                              *)
(***************************************************************************)
C20_Step ==
  pc = "eval" /\ Called("builtin_def")' /\ ~WellFormedDef' =>
    /\ pc' = "print"
    /\ output' =
         IF Args'[1].type # LVAL_QEXPR
         THEN ErrTree("Function 'def' passed incorrect type for argument 0!. Got "
                        \o ltype_name(Args'[1].type) \o ", Expected Q-Expression")
         ELSE IF \E i \in 1..Len(Args'[1].cell) : Args'[1].cell[i].type # LVAL_SYM
         THEN ErrTree("Function 'def' cannot define non-symbol")
         ELSE ErrTree("Function 'def' cannot define incorrect number of values to symbols")
    /\ Puts(log') = <<>>
    /\ EnvUntouched

C20_DefRefused == [][C20_Step]_vars

\* (def {x 1} 1 2) is refused for the 1 in the list, and x is not bound.
C20_Witness ==
  /\ pc = "print"
  /\ input = Lispy(<<Def, Qexpr(<<X, One>>), One, Two>>)
  /\ Called("builtin_def") /\ ~WellFormedDef
  /\ output = ErrTree("Function 'def' cannot define non-symbol")
  /\ ~Bound("x")

(***************************************************************************)
(* C21: the table of the builtins is fixed once the environment is         *)
(* initialised: in every environment each of the 19 names of               *)
(* lenv_add_builtins is bound to the Function it was registered with.      *)
(* The code breaks it: def takes the name of a builtin as it takes any     *)
(* other symbol, and lenv_put replaces the Function.                       *)
(***************************************************************************)
C21_BuiltinsFixed ==
  \A i \in 1..Len(builtins) :
    Bound(builtins[i][1]) /\ Val(builtins[i][1]) = FunTree(builtins[i][2])

(***************************************************************************)
(* C22: right after construction the environment holds one binding for     *)
(* each of the 19 builtin names and nothing else, each bound to a          *)
(* Function, and each word is bound to the Function of its operator (add   *)
(* and +, sub and -, mul and *, div and /, mod and %).  So the first line  *)
(* gives with the word what it gives with the operator: the same value or  *)
(* the same death of the process, and the same environment.                *)
(***************************************************************************)
BuiltinWords ==
  {"list", "head", "tail", "eval", "join", "cons", "len", "init", "def",
   "+", "-", "*", "/", "%", "add", "sub", "mul", "div", "mod"}

\* The operator a word stands for.
OperatorOf(w) ==
  CASE w = "add" -> "+" [] w = "sub" -> "-" [] w = "mul" -> "*" [] w = "div" -> "/"
    [] w = "mod" -> "%"

Words == {"add", "sub", "mul", "div", "mod"}

Constructed ==
  /\ Len(e.syms) = 19
  /\ {e.syms[i] : i \in 1..Len(e.syms)} = BuiltinWords
  /\ \A s \in BuiltinWords : Val(s).type = LVAL_FUN
  /\ \A w \in Words : Val(w) = Val(OperatorOf(w))

\* The evaluation of line t by a build with outcome u of the undefined operation.
RunLine(t, u) ==
  LET M1 == lval_read([Process EXCEPT !.ub = u], t)
  IN lval_eval(M1, M1.ret, 0)

\* The line that was read, with the operator in the place of the word.
WithOperator ==
  [input EXCEPT !.children[2] = Symbol(OperatorOf(input.children[2].contents))]

C22_Step ==
  /\ lines = 0 => Constructed
  /\ pc = "eval" /\ lines = 1 /\ Len(input.children) > 2
       /\ input.children[2].contents \in Words =>
         \E u \in UB :
           LET D == RunLine(WithOperator, u)
           IN /\ status' = D.status
              /\ D.status = OK => pc' = "print" /\ output' = Abs(D.heap, D.ret)
              /\ Env' = AbsEnv(D)

C22_Constructed == [][C22_Step]_vars

\* (mod 7 2) as the first line has returned 1, as (% 7 2) does.
C22_Witness ==
  /\ pc = "print" /\ lines = 1
  /\ input = Lispy(<<Symbol("mod"), Number("7"), Number("2")>>)
  /\ Called("builtin_mod")
  /\ output = NumTree(1)

(***************************************************************************)
(* C23: the values form trees that own their children.  Once a line is     *)
(* evaluated every live node has exactly one owner (the cell of one live   *)
(* list, one entry of the environment, or x) and is reached from the       *)
(* environment or from x, and no freed node has an owner: nothing is       *)
(* shared between two lists or between the environment and the result,     *)
(* nothing that was popped or taken is left behind, nothing freed is still *)
(* pointed to.  No node is freed twice and no freed node is copied.        *)
(***************************************************************************)
\* The live nodes.
Live == {a \in 1..Len(heap) : heap[a].live}

\* The pointers to node a: cells of live lists, entries of the environment, x.
Owners(a) ==
  Cardinality({p \in UNION {{<<b, i>> : i \in 1..Len(heap[b].cell)} : b \in Live} :
                 heap[p[1]].cell[p[2]] = a})
    + Cardinality({i \in 1..Len(e.vals) : e.vals[i] = a})
    + (IF pc = "print" /\ x = a THEN 1 ELSE 0)

\* The nodes of the value at a.
RECURSIVE Nodes(_)
Nodes(a) == {a} \cup UNION {Nodes(heap[a].cell[i]) : i \in 1..Len(heap[a].cell)}

\* The nodes reached from the environment and from x.
Reached ==
  UNION {Nodes(e.vals[i]) : i \in 1..Len(e.vals)}
    \cup (IF pc = "print" THEN Nodes(x) ELSE {})

Evaluated(t) ==
  t.type \in {LVAL_NUM, LVAL_ERR, LVAL_FUN, LVAL_QEXPR} \/ t = SexprTree(<<>>)

C24_Evaluated ==
  /\ pc = "print" => Evaluated(output)
  /\ pc # "dead" =>
       \A i \in 1..Len(e.vals) :
         Evaluated(Env.vals[i]) /\ Env.vals[i].type # LVAL_ERR

\* (def {x} {1 2}) has returned () and x holds the Q-expression {1 2}.
C24_Witness ==
  /\ pc = "print"
  /\ input = Lispy(<<Def, Qexpr(<<X>>), OneTwo>>)
  /\ Called("builtin_def")
  /\ output = SexprTree(<<>>)
  /\ Bound("x") /\ Val("x") = QexprTree(<<NumTree(1), NumTree(2)>>)

(***************************************************************************)
(* C25: every call of a builtin by lval_eval_sexpr, at any depth, hands it *)
(* an S-expression with at least one child, and none of the children is an *)
(* Error or a Symbol.  So def, join and the arithmetic fold, which read     *)
(* the first argument without looking at the count, always find one.       *)
(***************************************************************************)
Calls(l) == SelectSeq(l, LAMBDA ev : ev.op = "call")

C25_Arguments ==
  \A k \in 1..Len(Calls(log)) :
    LET a == Calls(log)[k].v
    IN /\ a.type = LVAL_SEXPR
       /\ Len(a.cell) >= 1
       /\ \A i \in 1..Len(a.cell) : a.cell[i].type \notin {LVAL_ERR, LVAL_SYM}

\* (+ x 1) with x bound to 2 has called builtin_add with (2 1): the value in
\* the place of the symbol.
C25_Witness ==
  /\ pc = "print"
  /\ input = Lispy(<<Plus, X, One>>)
  /\ Called("builtin_add")
  /\ Args = <<NumTree(2), NumTree(1)>>
  /\ output = NumTree(3)

(***************************************************************************)
(* C26: the values of a def are all evaluated in the environment as it is  *)
(* before the def binds anything.  For a line (def {names} values), def    *)
(* still the builtin and every value a number or a name: when a name among *)
(* the values is unbound before the line, the result is the Error of the   *)
(* first such name and nothing is bound; otherwise def is handed the       *)
(* numbers and the values the names had before the line, and each symbol   *)
(* ends bound to the one at its (last) position.  In (def {x y} v x), y    *)
(* gets what x held before, not v.                                         *)
(***************************************************************************)
\* The value of expression t of the line in the environment before the step.
Before(t) ==
  LET r == ReadTree(t)
  IN IF r.type # LVAL_SYM THEN r
     ELSE IF Bound(r.sym) THEN Val(r.sym)
     ELSE ErrTree("unbound symbol '" \o r.sym \o "'!")

\* The line is def applied to a list of symbols and as many numbers or names.
DefLine ==
  /\ Len(Exprs) >= 3
  /\ Exprs[1] = Def
  /\ ReadTree(Exprs[2]).type = LVAL_QEXPR
  /\ \A i \in 1..Len(ReadTree(Exprs[2]).cell) : ReadTree(Exprs[2]).cell[i].type = LVAL_SYM
  /\ Len(ReadTree(Exprs[2]).cell) = Len(Exprs) - 2
  /\ \A i \in 3..Len(Exprs) : ReadTree(Exprs[i]).type \in {LVAL_NUM, LVAL_SYM}

C26_Step ==
  pc = "eval" /\ DefLine /\ Bound("def") /\ Val("def") = FunTree("builtin_def") =>
    LET names == Names(ReadTree(Exprs[2]))
        vals == [i \in 1..Len(names) |-> Before(Exprs[i + 2])]
        errs == {i \in 1..Len(vals) : vals[i].type = LVAL_ERR}
    IN /\ pc' = "print"
       /\ IF errs # {}
          THEN /\ output' = vals[Min(errs)]
               /\ Puts(log') = <<>>
               /\ EnvUntouched
          ELSE /\ output' = SexprTree(<<>>)
               /\ Called("builtin_def")'
               /\ Args' = <<ReadTree(Exprs[2])>> \o vals
               /\ \A i \in 1..Len(names) :
                    (\A j \in (i + 1)..Len(names) : names[j] # names[i]) =>
                      BoundIn(e', names[i]) /\ ValIn(heap', e', names[i]) = vals[i]

C26_ValuesBeforeBinding == [][C26_Step]_vars

\* (def {x y} 1 x) with x bound to 2 before: x is 1 and y is 2.
C26_Witness ==
  /\ pc = "print"
  /\ input = Lispy(<<Def, Qexpr(<<X, Y>>), One, X>>)
  /\ Called("builtin_def")
  /\ Args = <<QexprTree(<<SymTree("x"), SymTree("y")>>), NumTree(1), NumTree(2)>>
  /\ Val("x") = NumTree(1) /\ Val("y") = NumTree(2)

====
